---- MODULE Spec2Model ----
(***************************************************************************)
(* A model of bybit_dump.DataDumper (src/bybit_dump/dump.py):              *)
(*   - _request_klines: cursor pagination with dedup and window filter,    *)
(*   - _get_v5_market_kline: one page fetch behind the shared throttle,    *)
(*   - _async_download_symbol_kline_data: the per-month cache decision,    *)
(*   - _async_download_symbol_data: the per-day bulk file download,        *)
(*   - _dump_symbol_data / dump_symbols: the fan-out over symbols,         *)
(*   - _get_category: the category of a symbol.                            *)
(* Time is discrete.  A kline row is identified by its timestamp (k[0]);   *)
(* the other columns are carried through unchanged by the code.            *)
(***************************************************************************)
EXTENDS Integers, Sequences, FiniteSets, TLC

\* ------------------------------------------------------------------------
\* Bounds
\* ------------------------------------------------------------------------
\* Timestamps of kline rows range over 0..MaxTs.
MaxTs == 3
\* Rows per page; the code asks for limit=1000 (dump.py:452), scaled down.
PageLimit == 2
\* The throttle's quota, per_duration(timedelta(seconds=5), limit=600)
\* (dump.py:63), scaled down: QuotaLimit permits per QuotaPeriod ticks.
QuotaLimit == 2
QuotaPeriod == 2
\* Calls of _get_v5_market_kline attempted in one burst.
MaxCalls == 5
\* The fetch model's clock runs over 0..MaxClock.
MaxClock == 2
\* stop_after_attempt(5) of the retry decorator (dump.py:383).
MaxAttempts == 5
\* Days of a month (the calendar scaled down).
DaysPerMonth == 2
\* The run model's clock, in days, runs over 1..MaxNow.
MaxNow == 4
\* Calls of dump_symbols.
MaxRuns == 2
\* Pages one month task asks for.
MaxPagesPerTask == 2
\* Letters after the base of a symbol handed to _get_category.
MaxSuffixLen == 4
\* DataDumper constructions in one process.
MaxDumpers == 2

VARIABLES
    \* ---- _request_klines (one call) ----
    start_ms,    \* window start (dump.py:438)
    end_ms,      \* window end, exclusive (dump.py:439)
    cursor,      \* dump.py:445
    seen,        \* dump.py:443
    records,     \* dump.py:444, in order of acceptance
    apc,         \* position in _request_klines: "loop", "exit", "done", "raised"
    result,      \* the returned series (timestamps), <<>> until returned
    upstream,    \* the rows the exchange holds (used by the honest page source)
    honest,      \* TRUE: every page is the earliest rows >= cursor
    first,       \* the first page received, while every later page repeated it
    same,        \* TRUE while every page received so far was the same page
    skip_dup,    \* TRUE once a row was skipped as already seen
    skip_out,    \* TRUE once a row was skipped as outside the window
    nfetch,      \* number of pages requested so far
    \* ---- _get_v5_market_kline behind DataDumper._throttle["public"] ----
    clock,           \* wall clock of the fetch model, in ticks
    tokens,          \* the throttle's stored token count for "v5/market/kline"
    last_refreshed,  \* the tick of the throttle's last granted permit
    issued,          \* issued[t]: kline requests sent during tick t
    calls,           \* calls[c]: one call of _get_v5_market_kline
    \* ---- dump_symbols and the tasks of its gather ----
    now,             \* datetime.now(timezone.utc), as a day
    self_end_date,   \* self.end_date, set by __init__ (dump.py:167-172)
    data_type,       \* "klines" or "trades"
    req_start,       \* start_date argument of dump_symbols
    req_end,         \* end_date argument of dump_symbols
    rpc,             \* "idle", "symbols", "gather", "finished", "aborted"
    si,              \* index of the symbol of the for loop
    tasks,           \* the coroutines handed to gather for symbol si
    files,           \* files[<<symbol, date>>]: the parquet file of a target
    nruns,           \* calls of dump_symbols so far
    hist,            \* hist[<<symbol, month>>]: the last two ended calls of
                     \* _async_download_symbol_kline_data on the month
    \* ---- one call of _get_category ----
    cat_asset_type,  \* self.asset_type
    cat_symbol,      \* the symbol argument
    cat_result,      \* "" until the call has returned or raised
    \* ---- the DataDumper instances of one process ----
    _info,           \* DataDumper._info, the class attribute (dump.py:43)
    dumpers          \* the constructions so far, each with its self.symbols

avars == <<start_ms, end_ms, cursor, seen, records, apc, result, upstream,
           honest, first, same, skip_dup, skip_out, nfetch>>

fvars == <<clock, tokens, last_refreshed, issued, calls>>

rvars == <<now, self_end_date, data_type, req_start, req_end, rpc, si, tasks,
           files, nruns, hist>>

cvars == <<cat_asset_type, cat_symbol, cat_result>>

ivars == <<_info, dumpers>>

vars == <<avars, fvars, rvars, cvars, ivars>>

\* ------------------------------------------------------------------------
\* Helpers
\* ------------------------------------------------------------------------
Range(s) == {s[i] : i \in DOMAIN s}

Min(a, b) == IF a < b THEN a ELSE b

Max(a, b) == IF a > b THEN a ELSE b

TsDomain == 0..MaxTs

\* No call requests more pages than this (one per timestamp of the window,
\* one more to see no progress); nfetch saturates here.
FetchCap == MaxTs + 3

\* Everything the kline endpoint can put in result.list: any rows, in any
\* order, with repeats, inside or outside the requested bound.
Pages == UNION {[1..n -> TsDomain] : n \in 0..PageLimit}

\* Insert x into the ascending sequence s, after the elements equal to it.
RECURSIVE InsertSorted(_, _)
InsertSorted(x, s) ==
    IF s = <<>> THEN <<x>>
    ELSE IF x < Head(s) THEN <<x>> \o s
    ELSE <<Head(s)>> \o InsertSorted(x, Tail(s))

RECURSIVE SortAsc(_)
SortAsc(s) ==
    IF s = <<>> THEN <<>>
    ELSE InsertSorted(s[Len(s)], SortAsc(SubSeq(s, 1, Len(s) - 1)))

\* sorted(lst, key=lambda k: int(k[0]))
SortPageUnsorted(lst) == lst

SortPage(lst) == SortAsc(lst)

\* The closing df[...].sort_values("timestamp")
SortValuesUnsorted(recs) == recs

SortValues(recs) == SortAsc(recs)

\* ts < start_ms or ts >= end_ms: continue
InWindow(ts, s, e) == ts >= s /\ ts < e

\* The for-loop over the sorted page: rows already seen or outside the
\* window are skipped, the others are appended in page order.
RECURSIVE AcceptRows(_, _, _, _)
AcceptRows(lst, sn, s, e) ==
    IF lst = <<>> THEN <<>>
    ELSE LET ts == Head(lst)
         IN  IF ts \in sn \/ ~InWindow(ts, s, e)
             THEN AcceptRows(Tail(lst), sn, s, e)
             ELSE <<ts>> \o AcceptRows(Tail(lst), sn \cup {ts}, s, e)

\* while cursor < end_ms
LoopConditionInclusive(cur, e) == cur <= e

LoopCondition(cur, e) == cur < e

\* if new_count == 0 or last_ts < cursor: break
NoProgressNever(new_count, last_ts, cur) == FALSE

NoProgressOnlyEmpty(new_count, last_ts, cur) == new_count = 0

NoProgress(new_count, last_ts, cur) == new_count = 0 \/ last_ts < cur

\* cursor = last_ts + 1
NextCursorSkip(last_ts) == last_ts + 2

NextCursor(last_ts) == last_ts + 1

\* An upstream that answers start=cur with the (at most PageLimit) earliest
\* rows whose timestamp is >= cur, in any order.
EarliestRows(cur) ==
    LET avail == {t \in upstream : t >= cur}
        k == Min(PageLimit, Cardinality(avail))
    IN  CHOOSE S \in SUBSET avail :
            /\ Cardinality(S) = k
            /\ \A a \in S : \A b \in avail \ S : a < b

HonestPages(cur) ==
    LET S == EarliestRows(cur)
    IN  {p \in Pages : Len(p) = Cardinality(S) /\ Range(p) = S}

\* ------------------------------------------------------------------------
\* _request_klines
\* ------------------------------------------------------------------------
\* The state of a part of the model that a specification leaves out.
IdleAssemble ==
    /\ start_ms = 0
    /\ end_ms = 0
    /\ cursor = 0
    /\ seen = {}
    /\ records = <<>>
    /\ apc = "idle"
    /\ result = <<>>
    /\ upstream = {}
    /\ honest = FALSE
    /\ first = <<>>
    /\ same = TRUE
    /\ skip_dup = FALSE
    /\ skip_out = FALSE
    /\ nfetch = 0

IdleFetch ==
    /\ clock = 0
    /\ tokens = 0
    /\ last_refreshed = 0
    /\ issued = <<>>
    /\ calls = <<>>

IdleCategory ==
    /\ cat_asset_type = ""
    /\ cat_symbol = <<>>
    /\ cat_result = ""

IdleInfo ==
    /\ _info = <<>>
    /\ dumpers = <<>>

IdleRun ==
    /\ now = 0
    /\ self_end_date = 0
    /\ data_type = ""
    /\ req_start = 0
    /\ req_end = 0
    /\ rpc = "off"
    /\ si = 0
    /\ tasks = <<>>
    /\ files = <<>>
    /\ nruns = 0
    /\ hist = <<>>

InitAssemble ==
    /\ IdleFetch
    /\ IdleRun
    /\ IdleCategory
    /\ IdleInfo
    /\ start_ms \in 0..MaxTs
    /\ end_ms \in 0..(MaxTs + 1)
    /\ cursor = start_ms
    /\ seen = {}
    /\ records = <<>>
    /\ apc = "loop"
    /\ result = <<>>
    /\ honest \in BOOLEAN
    /\ upstream \in (IF honest THEN SUBSET TsDomain ELSE {{}})
    /\ first = <<>>
    /\ same = TRUE
    /\ skip_dup = FALSE
    /\ skip_out = FALSE
    /\ nfetch = 0

\* One iteration of the while loop with the page p as the response.
ProcessPage(p) ==
    /\ same' = (same /\ (nfetch = 0 \/ p = first))
    /\ first' = (IF same' THEN p ELSE <<>>)
    /\ skip_dup' = (skip_dup \/ \E i \in 1..Len(p) :
                       p[i] \in seen \/ \E j \in 1..(i - 1) : p[j] = p[i])
    /\ skip_out' = (skip_out \/ \E i \in 1..Len(p) :
                       p[i] < start_ms \/ p[i] >= end_ms)
    /\ nfetch' = Min(nfetch + 1, FetchCap)
    /\ IF p = <<>>
       THEN /\ apc' = "exit"
            /\ UNCHANGED <<cursor, seen, records>>
       ELSE LET lst == SortPage(p)
                new == AcceptRows(lst, seen, start_ms, end_ms)
                last_ts == lst[Len(lst)]
            IN  /\ seen' = seen \cup Range(new)
                /\ records' = records \o new
                /\ IF NoProgress(Len(new), last_ts, cursor)
                   THEN apc' = "exit" /\ UNCHANGED cursor
                   ELSE apc' = "loop" /\ cursor' = NextCursor(last_ts)
    /\ UNCHANGED <<start_ms, end_ms, result, upstream, honest>>
    /\ UNCHANGED <<fvars, rvars, cvars, ivars>>

\* while cursor < end_ms: the page source is the honest upstream.
RequestPageHonest ==
    /\ apc = "loop"
    /\ LoopCondition(cursor, end_ms)
    /\ honest
    /\ \E p \in HonestPages(cursor) : ProcessPage(p)

\* while cursor < end_ms: the page source returns anything.
RequestPageAny ==
    /\ apc = "loop"
    /\ LoopCondition(cursor, end_ms)
    /\ ~honest
    /\ \E p \in Pages : ProcessPage(p)

\* The page fetch raises; the exception leaves _request_klines.
RequestPageRaises ==
    /\ apc = "loop"
    /\ LoopCondition(cursor, end_ms)
    /\ apc' = "raised"
    /\ nfetch' = Min(nfetch + 1, FetchCap)
    /\ UNCHANGED <<start_ms, end_ms, cursor, seen, records, result, upstream,
                   honest, first, same, skip_dup, skip_out>>
    /\ UNCHANGED <<fvars, rvars, cvars, ivars>>

\* The while condition is false.
LoopEnd ==
    /\ apc = "loop"
    /\ ~LoopCondition(cursor, end_ms)
    /\ apc' = "exit"
    /\ UNCHANGED <<start_ms, end_ms, cursor, seen, records, result, upstream,
                   honest, first, same, skip_dup, skip_out, nfetch>>
    /\ UNCHANGED <<fvars, rvars, cvars, ivars>>

\* After the loop: the empty frame, or the frame sorted by timestamp.
ReturnSeries ==
    /\ apc = "exit"
    /\ result' = (IF records = <<>> THEN <<>> ELSE SortValues(records))
    /\ apc' = "done"
    /\ UNCHANGED <<start_ms, end_ms, cursor, seen, records, upstream, honest,
                   first, same, skip_dup, skip_out, nfetch>>
    /\ UNCHANGED <<fvars, rvars, cvars, ivars>>

NextAssemble ==
    \/ RequestPageHonest
    \/ RequestPageAny
    \/ RequestPageRaises
    \/ LoopEnd
    \/ ReturnSeries

SpecAssemble == InitAssemble /\ [][NextAssemble]_vars

\* The event loop keeps running the coroutine until it returns or raises.
FairAssemble == SpecAssemble /\ WF_vars(NextAssemble)

\* ------------------------------------------------------------------------
\* _get_v5_market_kline and the shared throttle
\* ------------------------------------------------------------------------
\* if e.status in [500, 502, 503, 504, 429, 408]
RetryableStatuses == {500, 502, 503, 504, 429, 408}

\* The HTTP statuses the model lets the endpoint answer with.
Statuses == {200, 400, 401, 404} \cup RetryableStatuses

\* What a response does to the call: raise_for_status() passes on 200;
\* a retryable status raises tenacity.TryAgain, any other error status
\* re-raises the ClientResponseError.
ClassifyAllRetry(status) ==
    IF status = 200 THEN "ok" ELSE "TryAgain"

Classify(status) ==
    IF status = 200 THEN "ok"
    ELSE IF status \in RetryableStatuses THEN "TryAgain"
    ELSE "ClientResponseError"

\* The error statuses that are not in the list of dump.py:413.
FatalStatuses == Statuses \ (RetryableStatuses \cup {200})

\* Throttled(quota=per_duration(5 s, limit=600), timeout=5).  No `using` is
\* given, so the throttle runs the library's default algorithm, a token
\* bucket: capacity = burst = limit, refilled at limit/period per tick and
\* counted from the last granted permit.
ThrottleTimeout == QuotaPeriod

BucketCapacity == QuotaLimit

\* tokens = min(capacity, last_tokens + floor(time_elapsed * fill_rate))
Refilled(now_tick) ==
    Min(BucketCapacity,
        tokens + ((Max(0, now_tick - last_refreshed) * QuotaLimit) \div QuotaPeriod))

\* retry_after for one missing permit: ceil(cost / fill_rate) ticks.
RetryAfter == (QuotaPeriod + QuotaLimit - 1) \div QuotaLimit

CallIds == 1..MaxCalls

InitFetch ==
    /\ IdleAssemble
    /\ IdleRun
    /\ IdleCategory
    /\ IdleInfo
    /\ clock = 0
    /\ tokens = BucketCapacity
    /\ last_refreshed = 0
    /\ issued = [t \in 0..MaxClock |-> 0]
    /\ calls = [c \in CallIds |->
                  [pc |-> "idle", attempts |-> 0, acquired |-> 0,
                   limit_calls |-> 0,
                   since |-> 0, retry_at |-> 0, timed_out |-> FALSE]]

\* The request goes out: session.get(...).  permit tells whether limit()
\* had granted one.
SendRequest(c, call, permit) ==
    /\ calls' = [calls EXCEPT ![c] =
                    [call EXCEPT !.pc = "sent",
                                 !.attempts = @ + 1,
                                 !.acquired = IF permit THEN @ + 1 ELSE @,
                                 !.timed_out = ~permit,
                                 !.since = 0,
                                 !.retry_at = 0]]
    /\ issued' = [issued EXCEPT ![clock] = @ + 1]

\* The call reaches self._throttle["public"].limit(key="v5/market/kline"),
\* the statement before session.get (dump.py:406).
EnterLimitSkipped(call) == call

EnterLimit(call) == [call EXCEPT !.limit_calls = @ + 1]

\* self._throttle["public"].limit(key="v5/market/kline"), then the request.
\* limit() returns at once when a token is there, and also, with a limited
\* result, when retry_after exceeds the timeout; otherwise it starts to
\* wait.  Its result is discarded (dump.py:406): the request is sent
\* whatever limit() returned.  The calls are alike, so they are numbered in
\* the order in which they enter limit().
IssueRequest(c) ==
    /\ calls[c].pc = "idle"
    /\ \A b \in 1..(c - 1) : calls[b].pc # "idle"
    /\ LET avail == Refilled(clock)
           call == EnterLimit(calls[c])
       IN  IF avail >= 1
           THEN /\ tokens' = avail - 1
                /\ last_refreshed' = clock
                /\ SendRequest(c, call, TRUE)
           ELSE IF RetryAfter > ThrottleTimeout
           THEN /\ UNCHANGED <<tokens, last_refreshed>>
                /\ SendRequest(c, call, FALSE)
           ELSE /\ calls' = [calls EXCEPT ![c] =
                               [call EXCEPT !.pc = "waiting",
                                            !.since = clock,
                                            !.retry_at = clock + RetryAfter]]
                /\ UNCHANGED <<tokens, last_refreshed, issued>>
    /\ UNCHANGED clock
    /\ UNCHANGED <<avars, rvars, cvars, ivars>>

\* limit() wakes from its sleep of retry_after and asks again.  With a
\* token it returns; without one it gives up once the timeout has elapsed
\* since it was entered (a limited result, no exception), and sleeps again
\* otherwise.  The callers of the shared throttle (it is a class attribute)
\* run concurrently: another caller can take the refilled token first.
RetryLimit(c) ==
    /\ calls[c].pc = "waiting"
    /\ clock >= calls[c].retry_at
    /\ LET avail == Refilled(clock)
       IN  IF avail >= 1
           THEN /\ tokens' = avail - 1
                /\ last_refreshed' = clock
                /\ SendRequest(c, calls[c], TRUE)
           ELSE IF clock - calls[c].since >= ThrottleTimeout
           THEN /\ UNCHANGED <<tokens, last_refreshed>>
                /\ SendRequest(c, calls[c], FALSE)
           ELSE /\ calls' = [calls EXCEPT ![c].retry_at = clock + RetryAfter]
                /\ UNCHANGED <<tokens, last_refreshed, issued>>
    /\ UNCHANGED clock
    /\ UNCHANGED <<avars, rvars, cvars, ivars>>

\* The response arrives: return data, or raise out of the call.  The retry
\* decorator above the method is commented out (dump.py:382-385), so the
\* exception leaves the call; nothing sends the request again.
Respond(c) ==
    /\ calls[c].pc = "sent"
    /\ \E outcome \in {Classify(status) : status \in Statuses} :
          calls' = [calls EXCEPT ![c].pc =
                       IF outcome = "ok" THEN "returned" ELSE outcome]
    /\ UNCHANGED <<clock, tokens, last_refreshed, issued>>
    /\ UNCHANGED <<avars, rvars, cvars, ivars>>

\* session.get fails below HTTP (connection refused, reset): aiohttp raises
\* a ClientConnectionError, which nothing in the call catches.
ConnectionError(c) ==
    /\ calls[c].pc = "sent"
    /\ calls' = [calls EXCEPT ![c].pc = "ClientConnectionError"]
    /\ UNCHANGED <<clock, tokens, last_refreshed, issued>>
    /\ UNCHANGED <<avars, rvars, cvars, ivars>>

\* Time passes.
TickClock ==
    /\ clock < MaxClock
    /\ clock' = clock + 1
    /\ UNCHANGED <<tokens, last_refreshed, issued, calls>>
    /\ UNCHANGED <<avars, rvars, cvars, ivars>>

NextFetch ==
    \/ \E c \in CallIds : IssueRequest(c)
    \/ \E c \in CallIds : RetryLimit(c)
    \/ \E c \in CallIds : Respond(c)
    \/ \E c \in CallIds : ConnectionError(c)
    \/ TickClock

SpecFetch == InitFetch /\ [][NextFetch]_vars

\* ------------------------------------------------------------------------
\* The calendar, the symbols and the partition list
\* ------------------------------------------------------------------------
\* datetime | None arguments: None is written as -1.
None == 0 - 1

\* Days are numbered from the default start date 2020-12-18 (dump.py:170);
\* a month is DaysPerMonth days.
MonthStart(d) == (d \div DaysPerMonth) * DaysPerMonth

NextMonthStart(d) == MonthStart(d) + DaysPerMonth

\* main() builds the dumper with asset_type="contract" (dump.py:881).
asset_type == "contract"

\* The symbols of the run: a USDT perpetual, and a USDC perpetual under its
\* exchange id, which ends in PERP.
Symbols ==
    << <<"B", "T", "C", "U", "S", "D", "T">>,
       <<"B", "T", "C", "P", "E", "R", "P">> >>

SymbolIds == 1..Len(Symbols)

\* symbol["availableSince"] of each symbol, as a day.
AvailableSince == <<1, 2>>

\* str.endswith
EndsWith(s, suffix) ==
    /\ Len(s) >= Len(suffix)
    /\ SubSeq(s, Len(s) - Len(suffix) + 1, Len(s)) = suffix

\* _get_category, with self.asset_type as its first argument.
\* "ValueError" stands for the raise.
_get_category_startswith(self_asset_type, symbol) ==
    IF self_asset_type = "spot" THEN "spot"
    ELSE IF Len(symbol) >= 4
            /\ SubSeq(symbol, 1, 4) \in {<<"U", "S", "D", "T">>,
                                         <<"U", "S", "D", "C">>} THEN "linear"
    ELSE IF Len(symbol) >= 3 /\ SubSeq(symbol, 1, 3) = <<"U", "S", "D">>
    THEN "inverse"
    ELSE "ValueError"

_get_category(self_asset_type, symbol) ==
    IF self_asset_type = "spot" THEN "spot"
    ELSE IF EndsWith(symbol, <<"U", "S", "D", "T">>)
            \/ EndsWith(symbol, <<"U", "S", "D", "C">>) THEN "linear"
    ELSE IF EndsWith(symbol, <<"U", "S", "D">>) THEN "inverse"
    ELSE "ValueError"

\* The inputs of one call: both asset types of __init__'s signature, and the
\* symbols made of an optional base and up to MaxSuffixLen letters.
AssetTypes == {"spot", "contract"}

Letters == {"U", "S", "D", "T", "C", "P"}

Bases == {<<>>, <<"B", "T", "C">>}

SymbolInputs ==
    {b \o t : b \in Bases,
              t \in UNION {[1..n -> Letters] : n \in 0..MaxSuffixLen}}

InitCategory ==
    /\ IdleAssemble
    /\ IdleFetch
    /\ IdleRun
    /\ IdleInfo
    /\ cat_asset_type \in AssetTypes
    /\ cat_symbol \in SymbolInputs
    /\ cat_result = ""

\* The call runs.
CallGetCategory ==
    /\ cat_result = ""
    /\ cat_result' = _get_category(cat_asset_type, cat_symbol)
    /\ UNCHANGED <<cat_asset_type, cat_symbol>>
    /\ UNCHANGED <<avars, fvars, rvars, ivars>>

NextCategory == CallGetCategory

SpecCategory == InitCategory /\ [][NextCategory]_vars

\* circle == "monthly": the first day of every month from current's month
\* on, while current <= end_date.
RECURSIVE MonthlyDatesExclusive(_, _)
MonthlyDatesExclusive(current, end_date) ==
    IF current < end_date
    THEN <<MonthStart(current)>>
             \o MonthlyDatesExclusive(NextMonthStart(current), end_date)
    ELSE <<>>

RECURSIVE MonthlyDates(_, _)
MonthlyDates(current, end_date) ==
    IF current <= end_date
    THEN <<MonthStart(current)>> \o MonthlyDates(NextMonthStart(current), end_date)
    ELSE <<>>

\* circle == "daily"
RECURSIVE DailyDates(_, _)
DailyDates(current, end_date) ==
    IF current <= end_date
    THEN <<current>> \o DailyDates(current + 1, end_date)
    ELSE <<>>

\* raises: the ValueError of a start after the end.
_get_date_range(start_date, end_date, circle) ==
    IF start_date > end_date
    THEN [raises |-> TRUE, dates |-> <<>>]
    ELSE [raises |-> FALSE,
          dates |-> IF circle = "monthly"
                    THEN MonthlyDates(start_date, end_date)
                    ELSE DailyDates(start_date, end_date)]

\* get_exchange_info: the availability window of symbol i, clipped to
\* [2020-12-18, construction time - 1 day].  Every symbol is still listed
\* (availableTo is later than the clip).
SymbolInfo(i, info_end) ==
    [start_date |-> Max(AvailableSince[i], 0), end_date |-> info_end]

\* _dump_symbol_data up to the date list: "skip" is the early return,
\* "ValueError" the raise of _get_date_range.
DateList(i, dtype, rq_start, rq_end, g_start, g_end) ==
    LET info == SymbolInfo(i, g_end)
        s0 == IF rq_start = None THEN info.start_date ELSE rq_start
        e0 == IF rq_end = None THEN info.end_date ELSE rq_end
        s1 == Max(s0, g_start)
        e1 == Min(e0, g_end)
        s2 == IF s1 < info.start_date THEN info.start_date ELSE s1
        e2 == IF e1 > info.end_date THEN info.end_date ELSE e1
        dr == _get_date_range(s2, e2,
                              IF dtype = "klines" THEN "monthly" ELSE "daily")
    IN  IF s1 > e1 THEN [outcome |-> "skip", dates |-> <<>>]
        ELSE IF dr.raises THEN [outcome |-> "ValueError", dates |-> <<>>]
        ELSE [outcome |-> "dates", dates |-> dr.dates]

\* ------------------------------------------------------------------------
\* The month cache, the day download and the fan-out
\* ------------------------------------------------------------------------
Dates == 0..MaxNow

Targets == SymbolIds \X Dates

\* The path of a task's parquet file: the symbol and the month
\* ({symbol}_kline_%Y-%m.parquet, dump.py:560) for klines, the symbol and
\* the day ({symbol}%Y-%m-%d, dump.py:343) for trades.
file_path_without_date(symbol, date) == <<symbol, 0>>

file_path(symbol, date) ==
    IF data_type = "klines" THEN <<symbol, MonthStart(date)>>
    ELSE <<symbol, date>>

NoFile == [st |-> "absent", run |-> 0, fin |-> FALSE]

\* A file that to_parquet has opened and not finished.
PartialFile == [st |-> "partial", run |-> 0, fin |-> FALSE]

\* os.path.exists
Exists(f) == f.st # "absent"

\* month_finished = now_utc >= next_month_start
MonthFinishedBefore(now_utc, next_month_start) == now_utc < next_month_start

MonthFinished(now_utc, next_month_start) == now_utc >= next_month_start

\* if os.path.exists(file_path) and month_finished: return file_path
ShouldSkipWhenUnfinished(exists, month_finished) == exists /\ ~month_finished

ShouldSkipWhenExists(exists, month_finished) == exists

ShouldSkip(exists, month_finished) == exists /\ month_finished

\* The file a finished to_parquet leaves.  A month file is marked with the
\* run that wrote it and with whether the month was over when the writing
\* call read the clock; a day file is written once and carries no mark.
WrittenFile(t) ==
    IF data_type = "klines"
    THEN [st |-> "full", run |-> nruns,
          fin |-> MonthFinished(t.at, NextMonthStart(t.date))]
    ELSE [st |-> "full", run |-> 0, fin |-> FALSE]

\* The start_date and end_date arguments dump_symbols is called with.
ReqRanges == {<<None, None>>, <<0, 0>>, <<0, 2>>}

NewTask(d) ==
    [date |-> d, pc |-> "pending", out |-> "", at |-> 0, existed |-> FALSE,
     file0 |-> NoFile, asm |-> <<>>, fetches |-> 0, acquired |-> 0,
     status |-> 0, err |-> ""]

\* The try around _request_klines: except Exception logs the error and
\* returns None.  status is the HTTP status behind the exception, 0 if none.
KlineExceptReraises(t, status, e) ==
    [t EXCEPT !.pc = "raised", !.out = e, !.status = status, !.err = e]

KlineExcept(t, status, e) ==
    [t EXCEPT !.pc = "done", !.out = "Failed", !.status = status, !.err = e]

\* The coroutine has returned or raised.
Ended(t) == t.pc \in {"done", "raised"}

\* to_parquet runs without an await: no other coroutine of the loop runs
\* while one is inside it.
Writing == \E k \in DOMAIN tasks : tasks[k].pc = "writing"

\* tqdm.gather makes a task of every coroutine at once, and each task runs
\* to its first await before the loop handles any response.  A first step
\* reads the clock and its own file only, so the order among the first
\* steps is immaterial: they are taken in list order.
IsNextToStart(k) ==
    /\ tasks[k].pc = "pending"
    /\ \A j \in 1..(k - 1) : tasks[j].pc # "pending"

AllStarted == \A k \in DOMAIN tasks : tasks[k].pc # "pending"

\* What is kept of a call once its coroutine has ended: whether the month
\* was over when it was called, how it ended, whether it sent a request,
\* and the run that made it.
CallRecord(t) ==
    [over |-> t.at >= MonthStart(t.date) + DaysPerMonth,
     out |-> t.out,
     fetched |-> t.fetches > 0,
     run |-> nruns]

\* What dump_symbols hands back to its caller for the run: the method has
\* no return statement, and _dump_symbol_data drops the list that gather
\* returns (dump.py:851-857), so the caller gets None.
dump_symbols_result == None

LastTwo(s) == IF Len(s) <= 2 THEN s ELSE SubSeq(s, Len(s) - 1, Len(s))

\* Task k of the current gather ends as the record t.  An exception leaves
\* gather, run_until_complete and dump_symbols (its try/except is commented
\* out, dump.py:867-876): the run is over, the other coroutines stay where
\* they are.
EndTask(k, t) ==
    /\ tasks' = [tasks EXCEPT ![k] = t]
    /\ hist' = IF data_type = "klines"
               THEN [hist EXCEPT ![<<si, t.date>>] =
                        LastTwo(Append(@, CallRecord(t)))]
               ELSE hist
    /\ rpc' = IF t.pc = "raised" THEN "aborted" ELSE rpc

InitRun ==
    /\ IdleAssemble
    /\ IdleFetch
    /\ IdleCategory
    /\ IdleInfo
    /\ now \in 1..MaxNow
    /\ self_end_date = now - 1
    /\ data_type \in {"klines", "trades"}
    /\ req_start = None
    /\ req_end = None
    /\ rpc = "idle"
    /\ si = 0
    /\ tasks = <<>>
    /\ files = [x \in Targets |-> NoFile]
    /\ nruns = 0
    /\ hist = [x \in Targets |-> <<>>]

\* dump_symbols(data_type, start_date, end_date, freq) is called.
StartRun ==
    /\ rpc \in {"idle", "finished", "aborted"}
    /\ nruns < MaxRuns
    /\ nruns' = nruns + 1
    /\ \E rq \in ReqRanges : req_start' = rq[1] /\ req_end' = rq[2]
    /\ rpc' = "symbols"
    /\ si' = 1
    /\ tasks' = <<>>
    /\ UNCHANGED <<now, self_end_date, data_type, files, hist>>
    /\ UNCHANGED <<avars, fvars, cvars, ivars>>

\* _dump_symbol_data for the next symbol: the date list and one coroutine
\* per date, handed to gather.
DispatchSymbol ==
    /\ rpc = "symbols"
    /\ si <= Len(Symbols)
    /\ LET dl == DateList(si, data_type, req_start, req_end, 0, self_end_date)
       IN  IF dl.outcome = "skip"
           THEN si' = si + 1 /\ UNCHANGED <<rpc, tasks>>
           ELSE IF dl.outcome = "ValueError"
           THEN rpc' = "aborted" /\ UNCHANGED <<si, tasks>>
           ELSE /\ tasks' = [k \in 1..Len(dl.dates) |-> NewTask(dl.dates[k])]
                /\ rpc' = "gather"
                /\ UNCHANGED si
    /\ UNCHANGED <<now, self_end_date, data_type, req_start, req_end, files,
                   nruns, hist>>
    /\ UNCHANGED <<avars, fvars, cvars, ivars>>

\* _async_download_symbol_kline_data up to its first await: the skip, or
\* _request_klines as far as the first page request.
KlineStart(k) ==
    /\ rpc = "gather"
    /\ data_type = "klines"
    /\ IsNextToStart(k)
    /\ LET d == tasks[k].date
           f == files[file_path(si, d)]
           month_finished == MonthFinished(now, NextMonthStart(d))
           t0 == [tasks[k] EXCEPT !.at = now, !.existed = Exists(f), !.file0 = f]
           t1 == [t0 EXCEPT !.asm = <<MonthStart(d), NextMonthStart(d)>>]
       IN  IF ShouldSkip(Exists(f), month_finished)
           THEN EndTask(k, [t0 EXCEPT !.pc = "done", !.out = "Skipped"])
           ELSE IF _get_category(asset_type, Symbols[si]) = "ValueError"
           THEN EndTask(k, KlineExcept(t1, 0, "ValueError"))
           ELSE /\ tasks' = [tasks EXCEPT ![k] =
                               [t1 EXCEPT !.pc = "fetching", !.fetches = 1,
                                          !.acquired = 1]]
                /\ UNCHANGED <<hist, rpc>>
    /\ UNCHANGED <<now, self_end_date, data_type, req_start, req_end, si,
                   files, nruns>>
    /\ UNCHANGED <<avars, fvars, cvars, ivars>>

\* A page arrives and the loop asks for the next one.
KlineNextPage(k) ==
    /\ rpc = "gather"
    /\ data_type = "klines"
    /\ ~Writing
    /\ AllStarted
    /\ tasks[k].pc = "fetching"
    /\ tasks[k].fetches < MaxPagesPerTask
    /\ tasks' = [tasks EXCEPT ![k].fetches = @ + 1, ![k].acquired = @ + 1]
    /\ UNCHANGED <<now, self_end_date, data_type, req_start, req_end, rpc, si,
                   files, nruns, hist>>
    /\ UNCHANGED <<avars, fvars, cvars, ivars>>

\* A page arrives and the loop ends: the frame is built and
\* df.to_parquet(file_path) opens the file at its final path.
KlineLastPage(k) ==
    /\ rpc = "gather"
    /\ data_type = "klines"
    /\ ~Writing
    /\ AllStarted
    /\ tasks[k].pc = "fetching"
    /\ tasks' = [tasks EXCEPT ![k].pc = "writing"]
    /\ files' = [files EXCEPT ![file_path(si, tasks[k].date)] = PartialFile]
    /\ UNCHANGED <<now, self_end_date, data_type, req_start, req_end, rpc, si,
                   nruns, hist>>
    /\ UNCHANGED <<avars, fvars, cvars, ivars>>

\* The page fetch raises (what _get_v5_market_kline makes of an error
\* status, or a connection error), _request_klines lets it through, and the
\* except clause logs it: the coroutine returns None.
KlineFetchFails(k) ==
    /\ rpc = "gather"
    /\ data_type = "klines"
    /\ ~Writing
    /\ AllStarted
    /\ tasks[k].pc = "fetching"
    /\ \/ \E status \in Statuses \ {200} :
             EndTask(k, KlineExcept(tasks[k], status, Classify(status)))
       \/ EndTask(k, KlineExcept(tasks[k], 0, "ClientConnectionError"))
    /\ UNCHANGED <<now, self_end_date, data_type, req_start, req_end, si,
                   files, nruns>>
    /\ UNCHANGED <<avars, fvars, cvars, ivars>>

\* _async_download_symbol_data up to its first await: the existing parquet
\* file, or the GET of the day's file (no throttle on this endpoint).
TradesStart(k) ==
    /\ rpc = "gather"
    /\ data_type = "trades"
    /\ IsNextToStart(k)
    /\ LET f == files[file_path(si, tasks[k].date)]
           t0 == [tasks[k] EXCEPT !.at = now, !.existed = Exists(f), !.file0 = f]
       IN  IF Exists(f)
           THEN EndTask(k, [t0 EXCEPT !.pc = "done", !.out = "Exists"])
           ELSE /\ tasks' = [tasks EXCEPT ![k] =
                               [t0 EXCEPT !.pc = "fetching", !.fetches = 1]]
                /\ UNCHANGED <<hist, rpc>>
    /\ UNCHANGED <<now, self_end_date, data_type, req_start, req_end, si,
                   files, nruns>>
    /\ UNCHANGED <<avars, fvars, cvars, ivars>>

\* if e.status == 404 (dump.py:627)
IsNotFoundNever(status) == FALSE

IsNotFound(status) == status = 404

\* The response of the day's file: 404 returns None, 200 goes on to the
\* download and the conversion, any other status raises out of the
\* coroutine (TryAgain for the retryable ones; the retry decorator is
\* commented out, dump.py:595-598).
TradesRespond(k) ==
    /\ rpc = "gather"
    /\ data_type = "trades"
    /\ ~Writing
    /\ AllStarted
    /\ tasks[k].pc = "fetching"
    /\ \E status \in Statuses :
          IF IsNotFound(status)
          THEN /\ EndTask(k, [tasks[k] EXCEPT !.pc = "done", !.out = "NotFound",
                                              !.status = status])
               /\ UNCHANGED files
          ELSE IF status = 200
          THEN /\ tasks' = [tasks EXCEPT ![k].pc = "writing",
                                         ![k].status = status]
               /\ files' = [files EXCEPT ![file_path(si, tasks[k].date)] = PartialFile]
               /\ UNCHANGED <<hist, rpc>>
          ELSE /\ EndTask(k, [tasks[k] EXCEPT !.pc = "raised",
                                              !.status = status,
                                              !.out = Classify(status),
                                              !.err = Classify(status)])
               /\ UNCHANGED files
    /\ UNCHANGED <<now, self_end_date, data_type, req_start, req_end, si, nruns>>
    /\ UNCHANGED <<avars, fvars, cvars, ivars>>

\* session.get of the day's file fails below HTTP.
TradesConnectionError(k) ==
    /\ rpc = "gather"
    /\ data_type = "trades"
    /\ ~Writing
    /\ AllStarted
    /\ tasks[k].pc = "fetching"
    /\ EndTask(k, [tasks[k] EXCEPT !.pc = "raised",
                                   !.out = "ClientConnectionError",
                                   !.err = "ClientConnectionError"])
    /\ UNCHANGED <<now, self_end_date, data_type, req_start, req_end, si,
                   files, nruns>>
    /\ UNCHANGED <<avars, fvars, cvars, ivars>>

\* to_parquet completes: the file holds the whole frame.
WriteFinish(k) ==
    /\ rpc = "gather"
    /\ tasks[k].pc = "writing"
    /\ files' = [files EXCEPT ![file_path(si, tasks[k].date)] =
                    WrittenFile(tasks[k])]
    /\ EndTask(k, [tasks[k] EXCEPT !.pc = "done", !.out = "Cached"])
    /\ UNCHANGED <<now, self_end_date, data_type, req_start, req_end, si, nruns>>
    /\ UNCHANGED <<avars, fvars, cvars, ivars>>

\* to_parquet raises part-way (the disk is full, the process is
\* interrupted): nothing catches it and nothing removes the file.
WriteFails(k) ==
    /\ rpc = "gather"
    /\ tasks[k].pc = "writing"
    /\ EndTask(k, [tasks[k] EXCEPT !.pc = "raised", !.out = "OSError",
                                   !.err = "OSError"])
    /\ UNCHANGED <<now, self_end_date, data_type, req_start, req_end, si,
                   files, nruns>>
    /\ UNCHANGED <<avars, fvars, cvars, ivars>>

\* gather returns: every coroutine of the symbol has returned.
GatherDone ==
    /\ rpc = "gather"
    /\ \A k \in DOMAIN tasks : tasks[k].pc = "done"
    /\ rpc' = "symbols"
    /\ si' = si + 1
    /\ tasks' = <<>>
    /\ UNCHANGED <<now, self_end_date, data_type, req_start, req_end,
                   files, nruns, hist>>
    /\ UNCHANGED <<avars, fvars, cvars, ivars>>

\* The for loop over self.symbols is over: dump_symbols returns.
FinishRun ==
    /\ rpc = "symbols"
    /\ si > Len(Symbols)
    /\ rpc' = "finished"
    /\ UNCHANGED <<now, self_end_date, data_type, req_start, req_end, si,
                   tasks, files, nruns, hist>>
    /\ UNCHANGED <<avars, fvars, cvars, ivars>>

\* A day passes.  The tasks read the clock in their first step only, and
\* gather runs the first steps of all its tasks back to back.
Tick ==
    /\ now < MaxNow
    /\ rpc # "gather"
    /\ now' = now + 1
    /\ UNCHANGED <<self_end_date, data_type, req_start, req_end, rpc, si,
                   tasks, files, nruns, hist>>
    /\ UNCHANGED <<avars, fvars, cvars, ivars>>

Next ==
    \/ StartRun
    \/ DispatchSymbol
    \/ \E k \in DOMAIN tasks : KlineStart(k)
    \/ \E k \in DOMAIN tasks : KlineNextPage(k)
    \/ \E k \in DOMAIN tasks : KlineLastPage(k)
    \/ \E k \in DOMAIN tasks : KlineFetchFails(k)
    \/ \E k \in DOMAIN tasks : TradesStart(k)
    \/ \E k \in DOMAIN tasks : TradesRespond(k)
    \/ \E k \in DOMAIN tasks : TradesConnectionError(k)
    \/ \E k \in DOMAIN tasks : WriteFinish(k)
    \/ \E k \in DOMAIN tasks : WriteFails(k)
    \/ GatherDone
    \/ FinishRun
    \/ Tick

Spec == InitRun /\ [][Next]_vars

\* ------------------------------------------------------------------------
\* __init__, get_exchange_info and the class attribute _info
\* ------------------------------------------------------------------------
\* quote_currency=None, and the None quote of _parse_symbol.
NoQuote == "None"

_available_quote_currencies ==
    [spot |-> <<"EUR", "BRL", "PLN", "TRY", "SOL", "BTC", "ETH", "DAI", "BRZ",
                "USDT", "USDC", "USDE">>,
     contract |-> <<"USD", "USDT", "USDC", "FUTURE">>]

\* quote_suffixes of _parse_symbol, in the order of the dict, each suffix
\* spelled out.
quote_suffixes ==
    [spot |->
        << [quote |-> "EUR", suffix |-> <<"E", "U", "R">>],
           [quote |-> "BRL", suffix |-> <<"B", "R", "L">>],
           [quote |-> "PLN", suffix |-> <<"P", "L", "N">>],
           [quote |-> "TRY", suffix |-> <<"T", "R", "Y">>],
           [quote |-> "SOL", suffix |-> <<"S", "O", "L">>],
           [quote |-> "BTC", suffix |-> <<"B", "T", "C">>],
           [quote |-> "ETH", suffix |-> <<"E", "T", "H">>],
           [quote |-> "DAI", suffix |-> <<"D", "A", "I">>],
           [quote |-> "BRZ", suffix |-> <<"B", "R", "Z">>],
           [quote |-> "USDT", suffix |-> <<"U", "S", "D", "T">>],
           [quote |-> "USDC", suffix |-> <<"U", "S", "D", "C">>],
           [quote |-> "USDE", suffix |-> <<"U", "S", "D", "E">>] >>,
     perpetual |->
        << [quote |-> "USD", suffix |-> <<"U", "S", "D">>],
           [quote |-> "USDT", suffix |-> <<"U", "S", "D", "T">>],
           [quote |-> "PERP", suffix |-> <<"P", "E", "R", "P">>] >>]

\* The quote that _parse_symbol returns for id (the base is not modelled):
\* the first suffix of the table that id ends with, PERP standing for USDC.
_parse_symbol(id, type) ==
    IF type = "future" THEN "FUTURE"
    ELSE LET table == IF type \in DOMAIN quote_suffixes
                      THEN quote_suffixes[type] ELSE <<>>
             hits == {i \in DOMAIN table : EndsWith(id, table[i].suffix)}
         IN  IF hits = {} THEN NoQuote
             ELSE LET quote == table[CHOOSE i \in hits :
                                        \A j \in hits : i <= j].quote
                  IN  IF type = "perpetual" /\ quote = "PERP" THEN "USDC"
                      ELSE quote

\* data["datasets"]["symbols"][start_idx:] of each asset type: what the
\* exchange lists, the same at every fetch.
ExchangeSymbols ==
    [spot |->
        << [id |-> <<"B", "T", "C", "U", "S", "D", "T">>, type |-> "spot"],
           [id |-> <<"B", "T", "C", "U", "S", "D", "C">>, type |-> "spot"],
           [id |-> <<"E", "T", "H", "B", "T", "C">>, type |-> "spot"] >>,
     contract |->
        << [id |-> <<"B", "T", "C", "U", "S", "D", "T">>, type |-> "perpetual"],
           [id |-> <<"B", "T", "C", "P", "E", "R", "P">>, type |-> "perpetual"],
           [id |-> <<"B", "T", "C", "U", "S", "D">>, type |-> "perpetual"],
           [id |-> <<"B", "T", "C", "H", "2", "5">>, type |-> "future"] >>]

\* The listing of an asset type with the quote of every symbol.
Listed(at) ==
    [k \in DOMAIN ExchangeSymbols[at] |->
        [id |-> ExchangeSymbols[at][k].id,
         quote |-> _parse_symbol(ExchangeSymbols[at][k].id,
                                 ExchangeSymbols[at][k].type)]]

\* The for loop of get_exchange_info: the listed symbols that pass
\* quote_currency is None or quote_currency == symbol_info["quote"].
FilterByQuote(at, quote_currency) ==
    LET Keep(e) == quote_currency = NoQuote \/ quote_currency = e.quote
    IN  SelectSeq(Listed(at), Keep)

\* get_exchange_info with the class attribute as cache: the ValueError of
\* an unknown quote currency, the dict of the class attribute if it is not
\* empty, the filtered listing otherwise.  The dict is the sequence of its
\* items (availability dates are left to SymbolInfo).
get_exchange_info(at, quote_currency, cache) ==
    IF quote_currency # NoQuote
       /\ quote_currency \notin Range(_available_quote_currencies[at])
    THEN [raises |-> TRUE, info |-> <<>>]
    ELSE IF cache[at] # <<>> THEN [raises |-> FALSE, info |-> cache[at]]
    ELSE [raises |-> FALSE, info |-> FilterByQuote(at, quote_currency)]

\* The quote_currency arguments: None and every listed quote name.
QuoteInputs ==
    {NoQuote} \cup Range(_available_quote_currencies.spot)
              \cup Range(_available_quote_currencies.contract)

InitInfo ==
    /\ IdleAssemble
    /\ IdleFetch
    /\ IdleRun
    /\ IdleCategory
    /\ _info = [spot |-> <<>>, contract |-> <<>>]
    /\ dumpers = <<>>

\* DataDumper(asset_type=at, quote_currency=quote_currency), symbols=None:
\* self._info[asset_type] = self.get_exchange_info(...) and
\* self.symbols = list(self._info[asset_type].keys()).
Construct(at, quote_currency) ==
    /\ Len(dumpers) < MaxDumpers
    /\ LET r == get_exchange_info(at, quote_currency, _info)
       IN  IF r.raises
           THEN /\ dumpers' = Append(dumpers,
                                [asset_type |-> at,
                                 quote_currency |-> quote_currency,
                                 raised |-> TRUE, symbols |-> <<>>])
                /\ UNCHANGED _info
           ELSE /\ _info' = [_info EXCEPT ![at] = r.info]
                /\ dumpers' = Append(dumpers,
                                [asset_type |-> at,
                                 quote_currency |-> quote_currency,
                                 raised |-> FALSE,
                                 symbols |-> [k \in DOMAIN r.info |->
                                                 r.info[k].id]])
    /\ UNCHANGED <<avars, fvars, rvars, cvars>>

NextInfo == \E at \in AssetTypes, q \in QuoteInputs : Construct(at, q)

SpecInfo == InitInfo /\ [][NextInfo]_vars

\* ------------------------------------------------------------------------
\* Properties of _request_klines
\* ------------------------------------------------------------------------
StrictlyIncreasing(s) == \A i \in 1..(Len(s) - 1) : s[i] < s[i + 1]

\* C1: whatever the pages held (unsorted, overlapping, duplicated, outside
\* the window), the returned series has strictly increasing (hence pairwise
\* distinct) timestamps, all of them in [start_ms, end_ms).
C1_SeriesStrictlyIncreasingInWindow ==
    apc = "done" =>
        /\ StrictlyIncreasing(result)
        /\ \A i \in 1..Len(result) :
               start_ms <= result[i] /\ result[i] < end_ms

\* C1 witness: a returned series of two rows or more whose rows arrived out
\* of order, after pages that repeated rows and held rows outside the window.
C1_Witness ==
    /\ apc = "done"
    /\ ~honest
    /\ Len(result) >= 2
    /\ records # result
    /\ skip_dup
    /\ skip_out

\* C2: against an upstream that answers start=cursor with the earliest (at
\* most PageLimit) rows >= cursor, in any order, the returned series is
\* exactly the upstream rows of [start_ms, end_ms), each one once.
C2_HonestUpstreamFullCoverage ==
    (apc = "done" /\ honest) =>
        LET want == {t \in upstream : start_ms <= t /\ t < end_ms}
        IN  /\ Range(result) = want
            /\ Len(result) = Cardinality(want)

\* C2 witness: a full reconstruction that took several pages, the upstream
\* also holding a row outside the window.
C2_Witness ==
    /\ apc = "done"
    /\ honest
    /\ nfetch >= 2
    /\ Len(result) > PageLimit
    /\ \E t \in upstream : t < start_ms \/ t >= end_ms

\* C3: every call of _request_klines ends (returns or raises) after
\* finitely many page requests, whatever the page source answers.
C3_AssembleTerminates == <>(apc \in {"done", "raised"})

\* C3 witness: the call returned although the page source answered every
\* one of two or more requests with the same non-empty page.
C3_Witness ==
    /\ apc = "done"
    /\ same
    /\ nfetch >= 2
    /\ first # <<>>

\* C13: a call with start_ms > end_ms does not return a series (it fails
\* with an invalid-range error).
C13_StartAfterEndReturnsNothing ==
    start_ms > end_ms => apc # "done"

\* C14: a call with start_ms = end_ms never requests a page, does not raise,
\* and returns the empty series.
C14_EmptyWindowIsEmptyAndFetchless ==
    start_ms = end_ms =>
        /\ nfetch = 0
        /\ apc # "raised"
        /\ apc = "done" => result = <<>>

\* C14 witness: a returned call on [t, t) with t > 0.
C14_Witness ==
    /\ start_ms = end_ms
    /\ start_ms > 0
    /\ apc = "done"
    /\ nfetch = 0

\* A step of the loop that processes a page and leaves the loop in a state
\* from which it requests another one (no break, and cursor' < end_ms):
\* its cursor' is the page's last timestamp plus 1, and seen' \ seen are the
\* rows it accepted.
\* C23 as stated: the loop goes on only after a page that had a newly
\* accepted row and whose last timestamp was strictly greater than the
\* cursor of its request; otherwise it stops.
C23_GoesOnOnlyPastCursor ==
    [][(apc = "loop" /\ apc' = "loop" /\ cursor' < end_ms) =>
          (seen' # seen /\ cursor' - 1 > cursor)]_vars

\* C23 amended: the loop goes on only after a page that had a newly accepted
\* row and whose last timestamp was not less than the cursor of its
\* request; it stops on no new row, or on a last timestamp below the cursor.
C23_GoesOnOnlyFromCursorOn ==
    [][(apc = "loop" /\ apc' = "loop" /\ cursor' < end_ms) =>
          (seen' # seen /\ cursor' - 1 >= cursor)]_vars

\* C23 witness: the first page ended exactly at the cursor of its request,
\* with that row accepted, and the loop has gone on.
C23_Witness ==
    /\ apc = "loop"
    /\ nfetch = 1
    /\ seen = {start_ms}
    /\ cursor = start_ms + 1
    /\ cursor < end_ms

\* The largest element of a non-empty set of timestamps.
Largest(S) == CHOOSE t \in S : \A u \in S : u <= t

\* C25: whenever the loop is at the top of an iteration, every accepted
\* timestamp is below cursor, and if a page has been handled and another
\* is about to be requested (cursor < end_ms), cursor is the largest
\* accepted timestamp plus one; from one iteration to the next cursor
\* grows.
C25_CursorInvariant ==
    /\ [](apc = "loop" =>
            /\ \A t \in seen : t < cursor
            /\ (nfetch > 0 /\ cursor < end_ms) =>
                   (seen # {} /\ cursor = Largest(seen) + 1))
    /\ [][(apc = "loop" /\ apc' = "loop") => cursor' > cursor]_vars

\* C25 witness: two pages handled, two timestamps accepted, and a third
\* page about to be requested.
C25_Witness ==
    /\ apc = "loop"
    /\ nfetch = 2
    /\ Cardinality(seen) = 2
    /\ cursor < end_ms
    /\ cursor = Largest(seen) + 1

\* ------------------------------------------------------------------------
\* Properties of the month cache and the fan-out
\* ------------------------------------------------------------------------
\* The coroutines of _async_download_symbol_kline_data that have run their
\* first step.
KlineCalls ==
    IF data_type = "klines"
    THEN {k \in DOMAIN tasks : tasks[k].pc # "pending"}
    ELSE {}

\* C4: a call that found the month's file in place, at a time when the month
\* was over, has returned the path without a page request and without a
\* throttle acquisition, and the file is as the call found it.
C4_CompleteCachedMonthIsSkipped ==
    \A k \in KlineCalls :
        LET t == tasks[k]
        IN  (t.existed /\ t.at >= NextMonthStart(t.date)) =>
                /\ t.pc = "done"
                /\ t.out = "Skipped"
                /\ t.fetches = 0
                /\ t.acquired = 0
                /\ t.asm = <<>>
                /\ files[file_path(si, t.date)] = t.file0

\* C4 witness: a skipped call on a month whose file an earlier run wrote in
\* full.
C4_Witness ==
    \E k \in KlineCalls :
        /\ tasks[k].existed
        /\ tasks[k].at >= NextMonthStart(tasks[k].date)
        /\ tasks[k].out = "Skipped"
        /\ tasks[k].file0.st = "full"
        /\ tasks[k].file0.run < nruns

\* C5: a call made while the month is still running has called
\* _request_klines for [month start, next month start), file or no file, and
\* once it has returned the path the file is the one this call wrote.
C5_RunningMonthIsRefetched ==
    \A k \in KlineCalls :
        LET t == tasks[k]
        IN  t.at < NextMonthStart(t.date) =>
                /\ t.asm = <<MonthStart(t.date), NextMonthStart(t.date)>>
                /\ t.out # "Skipped"
                /\ t.out = "Cached" =>
                       files[file_path(si, t.date)] =
                           [st |-> "full", run |-> nruns, fin |-> FALSE]

\* C5 witness: a call on a running month that found a full file of an
\* earlier run, fetched, and left its own file in its place.
C5_Witness ==
    \E k \in KlineCalls :
        /\ tasks[k].at < NextMonthStart(tasks[k].date)
        /\ tasks[k].existed
        /\ tasks[k].file0.st = "full"
        /\ tasks[k].fetches > 0
        /\ tasks[k].out = "Cached"
        /\ files[file_path(si, tasks[k].date)] # tasks[k].file0

\* The targets with two consecutive ended calls, the first of them made
\* when the month was over.
TwiceOnCompleteMonth ==
    {x \in Targets : Len(hist[x]) = 2 /\ hist[x][1].over}

\* C6 as stated: of two consecutive calls on a finished month, the second
\* is a skip that requests no page, whatever the first call's outcome.
C6_SecondCallIsPureSkip ==
    \A x \in TwiceOnCompleteMonth :
        hist[x][2].out = "Skipped" /\ ~hist[x][2].fetched

\* C6 amended: of two consecutive calls on a finished month, if the first
\* returned the file's path (it skipped, or it fetched and wrote the file),
\* the second is a skip that requests no page.
C6_SecondCallIsPureSkipAfterPath ==
    \A x \in TwiceOnCompleteMonth :
        hist[x][1].out \in {"Skipped", "Cached"} =>
            hist[x][2].out = "Skipped" /\ ~hist[x][2].fetched

\* C6 witness: the first call fetched the finished month and wrote it, the
\* second skipped.
C6_Witness ==
    \E x \in TwiceOnCompleteMonth :
        /\ hist[x][1].out = "Cached"
        /\ hist[x][1].fetched
        /\ hist[x][2].out = "Skipped"
        /\ ~hist[x][2].fetched

\* C7: at every moment the path of a partition is absent or holds a complete
\* file, never a partly written one.
C7_NoPartialFileAtPath ==
    \A x \in Targets : files[x].st # "partial"

\* C8: an HTTP failure of one task never leaves dump_symbols: the run is
\* not aborted with a coroutine that raised on an error status.
C8_TaskFailureStaysInTask ==
    ~ /\ rpc = "aborted"
      /\ \E k \in DOMAIN tasks :
            /\ tasks[k].pc = "raised"
            /\ tasks[k].out \in {"TryAgain", "ClientResponseError"}

\* The month tasks that ended in the run that has just finished.
EndedInRun ==
    {x \in Targets : hist[x] # <<>> /\ hist[x][Len(hist[x])].run = nruns}

\* C11: when dump_symbols has returned, its result holds a terminal status
\* for every task of the run, Failed for the tasks that failed.
C11_RunYieldsReportOfEveryTask ==
    rpc = "finished" =>
        \A x \in EndedInRun :
            /\ dump_symbols_result # None
            /\ x \in DOMAIN dump_symbols_result
            /\ dump_symbols_result[x] = hist[x][Len(hist[x])].out

\* C12: a month task whose page request was answered with an error status
\* outside 500/502/503/504/429/408 has ended at that response, as Failed,
\* on the ClientResponseError itself, and the month's file is as the task
\* found it.
C12_FatalStatusEndsBarTaskFailed ==
    \A k \in KlineCalls :
        LET t == tasks[k]
        IN  t.status \in FatalStatuses =>
                /\ t.pc = "done"
                /\ t.out = "Failed"
                /\ t.err = "ClientResponseError"
                /\ files[file_path(si, t.date)] = t.file0

\* C12 witness: a month task that failed on HTTP 400 at its second page,
\* with a file of an earlier run in place.
C12_Witness ==
    \E k \in KlineCalls :
        /\ tasks[k].status = 400
        /\ tasks[k].fetches >= 2
        /\ tasks[k].out = "Failed"
        /\ tasks[k].file0.st = "full"

\* C15: the month counts as complete exactly when its end (the next
\* month's start) is strictly before the time of the call: a call skips if
\* and only if it found the file and was made after that instant, so a call
\* made at the instant itself fetches.  (Stated for the calls that found no
\* file or a fully written one.)
C15_CompleteOnlyStrictlyAfterEnd ==
    \A k \in KlineCalls :
        LET t == tasks[k]
        IN  t.file0.st # "partial" =>
                (t.out = "Skipped" <=>
                    (t.existed /\ t.at > NextMonthStart(t.date)))

\* The clipped range of the symbol of the for loop: the later of the
\* requested start (if any), the availability start and the global start
\* (2020-12-18, day 0), and the earlier of the three ends.
ClipStart ==
    LET a == SymbolInfo(si, self_end_date).start_date
    IN  Max(Max(a, 0), IF req_start = None THEN a ELSE req_start)

ClipEnd ==
    LET a == SymbolInfo(si, self_end_date).end_date
    IN  Min(Min(a, self_end_date), IF req_end = None THEN a ELSE req_end)

\* The partitions that meet [ClipStart, ClipEnd]: the months for klines,
\* the days for trades.
ExpectedPartitions ==
    IF data_type = "klines"
    THEN {MonthStart(d) : d \in ClipStart..ClipEnd}
    ELSE ClipStart..ClipEnd

\* C17: what _dump_symbol_data hands to gather for a symbol is one task
\* per partition that meets the clipped range, in ascending order, none
\* twice and none outside; with an empty clipped range it is nothing.
C17_OneTaskPerPartitionOfClippedRange ==
    [][(rpc = "symbols" /\ si \in SymbolIds /\ (rpc' # rpc \/ si' # si)) =>
          LET n == IF rpc' = "gather" THEN Len(tasks') ELSE 0
          IN  /\ {tasks'[k].date : k \in 1..n} = ExpectedPartitions
              /\ \A k \in 1..(n - 1) : tasks'[k].date < tasks'[k + 1].date
      ]_vars

\* C17 witness: two month tasks handed to gather for a requested range
\* that is wider than the symbol's availability.
C17_Witness ==
    /\ rpc = "gather"
    /\ data_type = "klines"
    /\ req_start # None
    /\ req_start < SymbolInfo(si, self_end_date).start_date
    /\ Len(tasks) = 2
    /\ \A k \in DOMAIN tasks : tasks[k].pc = "pending"

\* C27: when the clipped range of the symbol of the for loop is empty,
\* _dump_symbol_data hands nothing to gather and raises nothing, and the
\* loop goes to the next symbol.
C27_EmptyClippedRangeIsPassedOver ==
    [][(rpc = "symbols" /\ si \in SymbolIds /\ ClipStart > ClipEnd
           /\ (rpc' # rpc \/ si' # si)) =>
          (rpc' = "symbols" /\ si' = si + 1 /\ tasks' = <<>>)]_vars

\* C24: a call that skipped on a whole file found a file written by a call
\* that read the clock when the month was over: no file written while the
\* month was running is returned by a skip.
C24_SkippedFileWasWrittenAfterMonthEnd ==
    \A k \in KlineCalls :
        (tasks[k].out = "Skipped" /\ tasks[k].file0.st = "full") =>
            tasks[k].file0.fin

\* What a page fetch of _request_klines raises: the category error, the
\* exceptions _get_v5_market_kline makes of a status, a connection error.
FetchErrors ==
    {Classify(status) : status \in Statuses \ {200}}
        \cup {"ValueError", "ClientConnectionError"}

\* C26: a month call whose page fetch raised has returned None, and the
\* file at its path is what the call found there: absent if it was
\* absent, the same file if there was one.
C26_FetchFailureWritesNothing ==
    \A k \in KlineCalls :
        LET t == tasks[k]
        IN  t.err \in FetchErrors =>
                /\ t.pc = "done"
                /\ t.out = "Failed"
                /\ files[file_path(si, t.date)] = t.file0

\* C26 witness: the fetch of a running month failed after a page, and the
\* whole file an earlier run wrote is still there.
C26_Witness ==
    \E k \in KlineCalls :
        /\ tasks[k].err = "TryAgain"
        /\ tasks[k].fetches = 2
        /\ tasks[k].file0.st = "full"
        /\ tasks[k].file0.run < nruns
        /\ files[file_path(si, tasks[k].date)] = tasks[k].file0

\* The tasks of the current gather that have started and not ended.
InFlight ==
    Cardinality({k \in DOMAIN tasks : tasks[k].pc \in {"fetching", "writing"}})

\* The longest partition list that any symbol, data type, requested range
\* and construction day of the model gives.
LargestFanOut ==
    LET lens == {Len(DateList(i, dt, rq[1], rq[2], 0, e).dates) :
                    i \in SymbolIds, dt \in {"klines", "trades"},
                    rq \in ReqRanges, e \in 0..(MaxNow - 1)}
    IN  CHOOSE n \in lens : \A m \in lens : m <= n

\* C19: the number of tasks in flight at once stays under a bound that
\* does not grow with the partition list: it never reaches the length of
\* the longest list.
C19_InFlightBelowLargestFanOut ==
    InFlight < LargestFanOut

\* The coroutines of _async_download_symbol_data that have run their first
\* step.
TradesCalls ==
    IF data_type = "trades"
    THEN {k \in DOMAIN tasks : tasks[k].pc # "pending"}
    ELSE {}

\* C20: a day task answered with 404 has returned without raising and
\* without a file at its path; one answered with 500/502/503/504/429/408
\* has raised TryAgain; one answered with any other error status has raised
\* the ClientResponseError itself.
C20_DayTaskStatusHandling ==
    \A k \in TradesCalls :
        LET t == tasks[k]
        IN  /\ t.status = 404 =>
                   /\ t.pc = "done"
                   /\ t.out = "NotFound"
                   /\ t.err = ""
                   /\ files[file_path(si, t.date)] = NoFile
            /\ t.status \in RetryableStatuses =>
                   t.pc = "raised" /\ t.err = "TryAgain"
            /\ t.status \in FatalStatuses \ {404} =>
                   t.pc = "raised" /\ t.err = "ClientResponseError"

\* C20 witness: a day answered with 404 and ended, while a sibling day is
\* still in flight.
C20_Witness ==
    /\ \E k \in TradesCalls :
           tasks[k].status = 404 /\ tasks[k].out = "NotFound"
    /\ \E k \in TradesCalls : tasks[k].pc = "fetching"

EndsIn(s, suffix) ==
    \E n \in 0..Len(s) : s = SubSeq(s, 1, n) \o suffix

\* C18: under spot every symbol is spot; under contract a symbol ending in
\* USDT or USDC is linear, one ending in USD is inverse, and any other
\* symbol raises.
C18_CategoryDerivation ==
    cat_result # "" =>
        cat_result =
            CASE cat_asset_type = "spot" -> "spot"
              [] cat_asset_type # "spot"
                 /\ (EndsIn(cat_symbol, <<"U", "S", "D", "T">>)
                     \/ EndsIn(cat_symbol, <<"U", "S", "D", "C">>)) -> "linear"
              [] cat_asset_type # "spot"
                 /\ EndsIn(cat_symbol, <<"U", "S", "D">>) -> "inverse"
              [] OTHER -> "ValueError"

\* C18 witness: BTCUSD under contract has come out as inverse.
C18_Witness ==
    /\ cat_asset_type = "contract"
    /\ cat_symbol = <<"B", "T", "C", "U", "S", "D">>
    /\ cat_result = "inverse"

\* ------------------------------------------------------------------------
\* Properties of _get_v5_market_kline and the throttle
\* ------------------------------------------------------------------------
\* C9: a page fetch whose failure was a retryable status or a connection
\* error has been attempted MaxAttempts times before the error surfaces.
C9_RetryableFailureSurfacesAfterFiveAttempts ==
    \A c \in CallIds :
        calls[c].pc \in {"TryAgain", "ClientConnectionError"} =>
            calls[c].attempts = MaxAttempts

\* Requests sent during the QuotaPeriod ticks from tick t on.
RECURSIVE IssuedIn(_, _)
IssuedIn(t, n) ==
    IF n = 0 \/ t > MaxClock THEN 0
    ELSE issued[t] + IssuedIn(t + 1, n - 1)

\* C10: in every window of QuotaPeriod ticks at most QuotaLimit kline
\* requests are sent, over all calls together.
C10_AtMostLimitPerWindow ==
    \A t \in 0..MaxClock : IssuedIn(t, QuotaPeriod) <= QuotaLimit

\* C16: a call whose permit was not granted within the throttle's timeout
\* has failed with a timeout error and has sent no request.
C16_NoPermitNoRequest ==
    \A c \in CallIds :
        calls[c].timed_out =>
            /\ calls[c].pc = "RateLimitTimeout"
            /\ calls[c].attempts = 0

ListedWithQuote(at, q) ==
    LET l == FilterByQuote(at, q) IN [k \in DOMAIN l |-> l[k].id]

\* C28: every instance constructed without raising has as self.symbols the
\* listed symbols of its asset type whose quote is its quote_currency (all
\* of them with quote_currency=None), whatever was constructed before it.
C28_SymbolsFollowOwnQuoteCurrency ==
    \A i \in DOMAIN dumpers :
        ~dumpers[i].raised =>
            dumpers[i].symbols =
                ListedWithQuote(dumpers[i].asset_type,
                                dumpers[i].quote_currency)

====
